---------------------------- MODULE Spec2Model ----------------------------
(***************************************************************************)
(* The MavisIdWallet EIP-1193 provider of mavis-id-sdk: its session cache  *)
(* (in-memory address mirrored into origin-scoped storage), the            *)
(* cross-window authorization handshake it runs through CommunicateHelper, *)
(* and the request() dispatcher.                                           *)
(*                                                                         *)
(* The provider class is in the source tree; CommunicateHelper, openPopup, *)
(* validateIdAddress, the storage helpers and the signing helpers are      *)
(* imported by it and are modelled from their specification.               *)
(***************************************************************************)
EXTENDS Integers, Sequences, FiniteSets, TLC

(* ------------------------------ bounds --------------------------------- *)

\* Correlation tokens the state-token generator can hand out in one run.
MaxTokens == 3

(* --------------------------- value domains ----------------------------- *)

\* JavaScript's undefined: an absent address, result or error.
Undefined == "undefined"

\* localStorage.getItem's answer for a key that is not set.
Null == "null"

\* The provider instances living on the page (they share window and storage).
Inst == {"w1", "w2"}

\* The owners of a CommunicateHelper: each provider instance, and a call of
\* authorize(), which constructs a helper of its own.
Helpers == Inst \cup {"authorize"}

\* Checksummed addresses.
Canon == {"0xA1", "0xB2"}

\* Address strings that are syntactically valid: checksummed or not.
RawValid == Canon \cup {"0xa1"}

\* Address strings as they arrive in a payload or sit in storage.
RawAddr == RawValid \cup {"", "garbage"}

StorageValues == RawAddr \cup {Null}

PayloadAddr == (RawAddr \ {""}) \cup {Undefined}

IdOrigin == "https://id.skymavis.com"
AppOrigin == "https://app.example"
Origins == {IdOrigin, AppOrigin}

SupportedChains == {2020, 2021}

SignMethods == {"personal_sign", "eth_signTypedData_v4", "eth_sendTransaction"}
ConnectMethods == {"connect", "eth_requestAccounts"}

Tokens == 1..MaxTokens

\* The redirect-resumption query string: what searchParams.get answers for
\* method, type, state, data and address (null for a parameter not given).
Queries ==
    [method : {Null, "auth", "sign"}, type : {Null, "success", "failure"},
     state : {Null, "s1"}, data : {Null, "jwt"},
     address : (RawAddr \ {""}) \cup {Null}]

NoQuery ==
    [method |-> Null, type |-> Null, state |-> Null, data |-> Null, address |-> Null]

\* Inbound window messages: { method: "auth", type, state, data, address }.
Messages ==
    [origin : Origins, state : Tokens, type : {"success", "failure"},
     address : PayloadAddr]

(* ------------------------------ events --------------------------------- *)

AccountsChanged(accounts) ==
    [name |-> "accountsChanged", accounts |-> accounts, chainId |-> 0]

ConnectEvent(chain) ==
    [name |-> "connect", accounts |-> <<>>, chainId |-> chain]

DisconnectEvent ==
    [name |-> "disconnect", accounts |-> <<>>, chainId |-> 0]

(* ----------------------------- utilities ------------------------------- *)

\* utils/validate-address: the checksummed form of a syntactically valid
\* address, undefined for anything else.
validateIdAddress(raw) ==
    CASE raw \in Canon -> raw
      [] raw = "0xa1" -> "0xA1"
      [] OTHER -> Undefined

HexDigit(d) == SubSeq("0123456789abcdef", d + 1, d + 1)

RECURSIVE HexDigits(_)
HexDigits(n) == IF n < 16 THEN HexDigit(n) ELSE HexDigits(n \div 16) \o HexDigit(n % 16)

\* viem's toHex of a number.
toHex(n) == "0x" \o HexDigits(n)

VARIABLES
    storage,     \* localStorage[STORAGE_ADDRESS_KEY], shared by all instances
    address,     \* this.address of each instance
    chainId,     \* this.chainId of each instance
    pending,     \* each instance's CommunicateHelper: its pending requests
    cont,        \* a signing request that holds its expectAddress and has not
                 \* launched its confirmation yet
    nextToken,   \* the state-token generator
    emitted,     \* the events emitted by the last step, in order
    last,        \* what the last step did
    authorized,  \* addresses validated on a success response so far
    settledBy,   \* how each handshake was settled, where that is recorded
    disconnectedDuring  \* the handshakes that were pending when their instance's
                 \* disconnect() ran, where that is recorded

vars == <<storage, address, chainId, pending, cont, nextToken, emitted, last, authorized, settledBy,
         disconnectedDuring>>

NoCont == [method |-> "none", expect |-> Undefined]

\* A pending request of a CommunicateHelper together with the call awaiting it.
Requests ==
    [token : Tokens, phase : {"auth", "confirm"},
     method : ConnectMethods \cup SignMethods \cup {"authorize"}, expect : Canon \cup {Undefined}]

(* ---------------------------- storage ---------------------------------- *)

getStorage == storage

(* ------------------------ MavisIdWallet -------------------------------- *)

\* A helper constructed with redirectUrl (the page's origin) for idOrigin.
HelperOriginRedirect == AppOrigin

\* The origin the provider hands to its CommunicateHelper.
HelperOrigin == IdOrigin

\* getIdAddress without the fallback to storage.
getIdAddressNoFallback(p) == address[p]

\* getIdAddress handing out the stored value as it is.
getIdAddressUnvalidated(p) ==
    IF address[p] # Undefined
    THEN address[p]
    ELSE IF getStorage \in {Null, ""} THEN Undefined ELSE getStorage

\* getIdAddress consulting the storage entry before this.address.
getIdAddressStorageFirst(p) ==
    IF validateIdAddress(IF getStorage = Null THEN "" ELSE getStorage) # Undefined
    THEN validateIdAddress(IF getStorage = Null THEN "" ELSE getStorage)
    ELSE address[p]

getIdAddress(p) ==
    IF address[p] # Undefined
    THEN address[p]
    ELSE validateIdAddress(IF getStorage = Null THEN "" ELSE getStorage)

\* The record of a step: the handler that ran (step), for which instance and
\* call (op), what became of the call (kind, value, error), the address the
\* session cache held when the step began (cached), and, for a message event,
\* the message (origin, state, type, payload); for a step that emits events,
\* what eth_accounts answers a listener of them (seen); for parseRedirectUrl,
\* the query string it parsed (query).
Did(p, step, op, kind, value, error) ==
    [inst |-> p, step |-> step, op |-> op, kind |-> kind, value |-> value,
     error |-> error, cached |-> IF p \in Inst THEN getIdAddress(p) ELSE Undefined,
     origin |-> "none", state |-> 0, type |-> "none", payload |-> Undefined,
     seen |-> <<>>, query |-> NoQuery]

Heard(m, p, op, kind, value, error) ==
    [inst |-> p, step |-> "message", op |-> op, kind |-> kind, value |-> value,
     error |-> error, cached |-> IF p \in Inst THEN getIdAddress(p) ELSE Undefined,
     origin |-> m.origin, state |-> m.state, type |-> m.type, payload |-> m.address,
     seen |-> <<>>, query |-> NoQuery]

Init ==
    /\ storage \in StorageValues
    /\ address = [p \in Inst |-> Undefined]
    /\ chainId \in {[p \in Inst |-> c] : c \in SupportedChains}
    /\ pending = [p \in Helpers |-> {}]
    /\ cont = [p \in Inst |-> NoCont]
    /\ nextToken = 1
    /\ emitted = <<>>
    /\ last = [inst |-> "none", step |-> "create", op |-> "create", kind |-> "resolved",
               value |-> <<>>, error |-> Undefined, cached |-> Undefined,
               origin |-> "none", state |-> 0, type |-> "none", payload |-> Undefined,
               seen |-> <<>>, query |-> NoQuery]
    /\ authorized = {}
    /\ settledBy = [t \in Tokens |-> "none"]
    /\ disconnectedDuring = {}

(* ----------------- CommunicateHelper (one per instance) ---------------- *)

\* A helper without the guard: overlapping requests are all registered.
CanSendAlways(p) == TRUE

\* sendRequest's guard: one handshake may be outstanding per helper; an
\* overlapping call is rejected with ConcurrentRequestError.
CanSend(p) == pending[p] = {}

\* A listener that checks the origin and not the correlation token.
MatchesOrigin(p, r, m) == m.origin = HelperOrigin

\* An inbound message settles request r of instance p only when it comes from
\* the helper's origin and carries r's correlation token.
Matches(p, r, m) == m.origin = HelperOrigin /\ m.state = r.token

\* sendRequest(launch): a fresh token, the request registered, the popup
\* opened with the token (blocked: window creation failed).
sendRequest(p, step, phase, method, expect, blocked) ==
    /\ emitted' = <<>>
    /\ UNCHANGED <<storage, address, chainId, authorized>>
    /\ IF ~CanSend(p)
       THEN /\ last' = Did(p, step, method, "rejected", <<>>, "ConcurrentRequestError")
            /\ UNCHANGED <<pending, nextToken>>
       ELSE /\ nextToken <= MaxTokens
            /\ nextToken' = nextToken + 1
            /\ IF blocked
               THEN /\ last' = Did(p, step, method, "rejected", <<>>, "UserCancelledError")
                    /\ UNCHANGED pending
               ELSE /\ pending' = [pending EXCEPT ![p] = @ \cup
                           {[token |-> nextToken, phase |-> phase,
                             method |-> method, expect |-> expect]}]
                    /\ last' = Did(p, step, method,
                                   IF phase = "auth" THEN "authorizing" ELSE "confirming",
                                   IF expect = Undefined THEN <<>> ELSE <<expect>>,
                                   Undefined)

(* ------------------------ MavisIdWallet: calls ------------------------- *)

\* connect(), up to its await of the handshake.
Connect(p) ==
    /\ \E blocked \in BOOLEAN : sendRequest(p, "call", "auth", "connect", Undefined, blocked)
    /\ UNCHANGED cont

\* connect() without the check of the validated address.
connectRejectsNever(addr) == FALSE

\* connect()'s check of the validated address.
connectRejects(addr) == addr = Undefined

\* connect() emitting before it writes the cache: a listener still reads the
\* session as it was.
seenBeforeWrite(p, addr) ==
    IF getIdAddress(p) # Undefined THEN <<getIdAddress(p)>> ELSE <<>>

\* What eth_accounts answers a listener of connect()'s events: storage and
\* this.address are written before the first emit.
seenByListeners(p, addr) == <<addr>>

\* connect() dropping the session when the response's address is unusable.
ConnectResumeForgets(p, r, m) ==
    LET addr == validateIdAddress(m.address) IN
    IF connectRejects(addr)
    THEN /\ last' = Heard(m, p, r.method, "rejected", <<>>, "UnauthorizedProviderError")
         /\ emitted' = <<>>
         /\ storage' = Null
         /\ address' = [address EXCEPT ![p] = Undefined]
         /\ UNCHANGED cont
    ELSE /\ storage' = addr
         /\ address' = [address EXCEPT ![p] = addr]
         /\ emitted' = <<AccountsChanged(<<addr>>), ConnectEvent(chainId[p])>>
         /\ cont' = cont
         /\ last' = [Heard(m, p, r.method, "resolved", <<addr>>, Undefined)
                        EXCEPT !.seen = seenByListeners(p, addr)]

\* connect(), resumed with the handshake's payload; the caller's continuation
\* (request's eth_requestAccounts, getIdAddressOrConnect) follows.
ConnectResume(p, r, m) ==
    LET addr == validateIdAddress(m.address) IN
    IF connectRejects(addr)
    THEN /\ last' = Heard(m, p, r.method, "rejected", <<>>, "UnauthorizedProviderError")
         /\ emitted' = <<>>
         /\ UNCHANGED <<storage, address, cont>>
    ELSE /\ storage' = addr
         /\ address' = [address EXCEPT ![p] = addr]
         /\ emitted' = <<AccountsChanged(<<addr>>), ConnectEvent(chainId[p])>>
         /\ IF r.method \in SignMethods
            THEN /\ cont' = [cont EXCEPT ![p] = [method |-> r.method, expect |-> addr]]
                 /\ last' = [Heard(m, p, r.method, "ready", <<addr>>, Undefined)
                                EXCEPT !.seen = seenByListeners(p, addr)]
            ELSE /\ cont' = cont
                 /\ last' = [Heard(m, p, r.method, "resolved", <<addr>>, Undefined)
                                EXCEPT !.seen = seenByListeners(p, addr)]

\* disconnect() announcing the disconnection whatever this.address was.
DisconnectAlwaysEmits(p) ==
    /\ storage' = Null
    /\ address' = [address EXCEPT ![p] = Undefined]
    /\ emitted' = <<AccountsChanged(<<>>), DisconnectEvent>>
    /\ last' = Did(p, "call", "disconnect", "resolved", <<>>, Undefined)
    /\ UNCHANGED <<chainId, pending, cont, nextToken, authorized>>

\* disconnect() that also drops the handshakes its instance has pending.
DisconnectCancels(p) ==
    /\ storage' = Null
    /\ address' = [address EXCEPT ![p] = Undefined]
    /\ emitted' = IF address[p] # Undefined
                  THEN <<AccountsChanged(<<>>), DisconnectEvent>>
                  ELSE <<>>
    /\ last' = Did(p, "call", "disconnect", "resolved", <<>>, Undefined)
    /\ pending' = [pending EXCEPT ![p] = {}]
    /\ UNCHANGED <<chainId, cont, nextToken, authorized>>

\* disconnect() removing the stored address and keeping this.address.
DisconnectKeepsAddress(p) ==
    /\ storage' = Null
    /\ address' = address
    /\ emitted' = IF address[p] # Undefined
                  THEN <<AccountsChanged(<<>>), DisconnectEvent>>
                  ELSE <<>>
    /\ last' = Did(p, "call", "disconnect", "resolved", <<>>, Undefined)
    /\ UNCHANGED <<chainId, pending, cont, nextToken, authorized>>

\* disconnect()
Disconnect(p) ==
    LET shouldEmitDisconnectEvent == address[p] # Undefined IN
    /\ storage' = Null
    /\ address' = [address EXCEPT ![p] = Undefined]
    /\ emitted' = IF shouldEmitDisconnectEvent
                  THEN <<AccountsChanged(<<>>), DisconnectEvent>>
                  ELSE <<>>
    /\ last' = Did(p, "call", "disconnect", "resolved", <<>>, Undefined)
    /\ UNCHANGED <<chainId, pending, cont, nextToken, authorized>>

\* request's eth_chainId case answering Ronin mainnet whatever the instance
\* was constructed with.
EthChainIdMainnet(p) ==
    /\ last' = Did(p, "call", "eth_chainId", "resolved", <<"0x7e4">>, Undefined)
    /\ emitted' = <<>>
    /\ UNCHANGED <<storage, address, chainId, pending, cont, nextToken, authorized>>

\* request({ method: "eth_chainId" })
EthChainId(p) ==
    /\ last' = Did(p, "call", "eth_chainId", "resolved", <<toHex(chainId[p])>>, Undefined)
    /\ emitted' = <<>>
    /\ UNCHANGED <<storage, address, chainId, pending, cont, nextToken, authorized>>

\* request({ method: "eth_accounts" })
EthAccounts(p) ==
    LET addr == getIdAddress(p) IN
    /\ last' = Did(p, "call", "eth_accounts", "resolved",
                   IF addr # Undefined THEN <<addr>> ELSE <<>>, Undefined)
    /\ emitted' = <<>>
    /\ UNCHANGED <<storage, address, chainId, pending, cont, nextToken, authorized>>

\* eth_requestAccounts answering from the session cache, as eth_accounts does.
EthRequestAccountsCached(p) ==
    LET addr == getIdAddress(p) IN
    IF addr # Undefined
    THEN /\ last' = Did(p, "call", "eth_requestAccounts", "resolved", <<addr>>, Undefined)
         /\ emitted' = <<>>
         /\ UNCHANGED <<storage, address, chainId, pending, cont, nextToken, authorized>>
    ELSE /\ \E blocked \in BOOLEAN :
               sendRequest(p, "call", "auth", "eth_requestAccounts", Undefined, blocked)
         /\ UNCHANGED cont

\* request({ method: "eth_requestAccounts" }), up to connect()'s await.
EthRequestAccounts(p) ==
    /\ \E blocked \in BOOLEAN :
          sendRequest(p, "call", "auth", "eth_requestAccounts", Undefined, blocked)
    /\ UNCHANGED cont

\* A signing request that runs connect() whatever the session cache holds.
SignRequestAlwaysConnects(p, method) ==
    /\ cont[p] = NoCont
    /\ \A r \in pending[p] : ~(r.phase = "auth" /\ r.method \in SignMethods)
    /\ \E blocked \in BOOLEAN : sendRequest(p, "call", "auth", method, Undefined, blocked)
    /\ UNCHANGED cont

\* request of a signing method, through getIdAddressOrConnect: the cached
\* address if there is one, else connect().
SignRequest(p, method) ==
    LET addr == getIdAddress(p) IN
    /\ cont[p] = NoCont
    /\ \A r \in pending[p] : ~(r.phase = "auth" /\ r.method \in SignMethods)
    /\ IF addr # Undefined
       THEN /\ cont' = [cont EXCEPT ![p] = [method |-> method, expect |-> addr]]
            /\ last' = Did(p, "call", method, "ready", <<addr>>, Undefined)
            /\ emitted' = <<>>
            /\ UNCHANGED <<storage, address, chainId, pending, nextToken, authorized>>
       ELSE /\ \E blocked \in BOOLEAN : sendRequest(p, "call", "auth", method, Undefined, blocked)
            /\ UNCHANGED cont

\* personalSign / signTypedDataV4 / sendTransaction: the confirmation
\* round-trip of a signing request that has its expectAddress.
SignConfirm(p) ==
    /\ cont[p] # NoCont
    /\ cont' = [cont EXCEPT ![p] = NoCont]
    /\ \E blocked \in BOOLEAN :
          sendRequest(p, "resume", "confirm", cont[p].method, cont[p].expect, blocked)

\* request of any other method: handed to the viem client unchanged.
PassThrough(p) ==
    /\ last' = Did(p, "call", "eth_blockNumber", "resolved", <<"rpc">>, Undefined)
    /\ emitted' = <<>>
    /\ UNCHANGED <<storage, address, chainId, pending, cont, nextToken, authorized>>

(* -------------------- settling a pending request ----------------------- *)

\* The signing helper, resumed with the confirmation's payload.
ConfirmResume(p, r, m) ==
    /\ emitted' = <<>>
    /\ UNCHANGED <<storage, address, cont>>
    /\ IF validateIdAddress(m.address) = r.expect
       THEN last' = Heard(m, p, r.method, "resolved", <<"0xsigned">>, Undefined)
       ELSE last' = Heard(m, p, r.method, "rejected", <<>>, "UnauthorizedProviderError")

(* ------------------------------ auth.ts -------------------------------- *)

\* authorize(), up to its await of the handshake, on a helper of its own
\* (one call of authorize() is followed at a time).
Authorize ==
    /\ pending["authorize"] = {}
    /\ \E blocked \in BOOLEAN :
          sendRequest("authorize", "call", "auth", "authorize", Undefined, blocked)
    /\ UNCHANGED cont

\* authorize(), resumed with the handshake's payload: it returns the token
\* and validateIdAddress(address), whatever that is.
AuthorizeResume(p, r, m) ==
    /\ emitted' = <<>>
    /\ UNCHANGED <<storage, address, cont>>
    /\ last' = Heard(m, p, r.method, "resolved",
                     <<"id_token", validateIdAddress(m.address)>>, Undefined)

\* parseRedirectUrl() checking type before method.
parseRedirectUrlTypeFirst(q) ==
    IF q.type # "success"
    THEN [kind |-> "rejected", value |-> <<>>,
          error |-> "parseRedirectUrl: authorization failed"]
    ELSE IF q.method # "auth"
         THEN [kind |-> "rejected", value |-> <<>>,
               error |-> "parseRedirectUrl: invalid method"]
         ELSE [kind |-> "resolved", error |-> Undefined,
               value |-> <<q.state, q.data,
                           validateIdAddress(IF q.address = Null THEN Undefined
                                                                 ELSE q.address)>>]

\* parseRedirectUrl() on the query string q: what it throws, or the state,
\* accessToken and address it returns.
parseRedirectUrl(q) ==
    IF q.method # "auth"
    THEN [kind |-> "rejected", value |-> <<>>,
          error |-> "parseRedirectUrl: invalid method"]
    ELSE IF q.type # "success"
         THEN [kind |-> "rejected", value |-> <<>>,
               error |-> "parseRedirectUrl: authorization failed"]
         ELSE [kind |-> "resolved", error |-> Undefined,
               value |-> <<q.state, q.data,
                           validateIdAddress(IF q.address = Null THEN Undefined
                                                                 ELSE q.address)>>]

\* A call of parseRedirectUrl() on a page loaded with the query string q.
ParseRedirectUrl(q) ==
    /\ last' = [inst |-> "none", step |-> "call", op |-> "parseRedirectUrl",
                kind |-> parseRedirectUrl(q).kind, value |-> parseRedirectUrl(q).value,
                error |-> parseRedirectUrl(q).error, cached |-> Undefined,
                origin |-> "none", state |-> 0, type |-> "none", payload |-> Undefined,
                seen |-> <<>>, query |-> q]
    /\ emitted' = <<>>
    /\ UNCHANGED <<storage, address, chainId, pending, cont, nextToken, authorized>>

(* ------------------- CommunicateHelper: settling ----------------------- *)

\* The response validator passes payload m of authorization request r.
Validated(r, m) ==
    r.phase = "auth" /\ m.type = "success" /\ validateIdAddress(m.address) \in Canon

\* The helper's listener accepting message m for request r of instance p.
Settle(p, r, m) ==
    /\ pending' = [pending EXCEPT ![p] = @ \ {r}]
    /\ UNCHANGED <<chainId, nextToken>>
    /\ authorized' = IF Validated(r, m) THEN authorized \cup {validateIdAddress(m.address)}
                                        ELSE authorized
    /\ IF m.type = "failure"
       THEN /\ last' = Heard(m, p, r.method, "rejected", <<>>, "failure")
            /\ emitted' = <<>>
            /\ UNCHANGED <<storage, address, cont>>
       ELSE IF r.method = "authorize"
            THEN AuthorizeResume(p, r, m)
            ELSE IF r.phase = "auth"
                 THEN ConnectResume(p, r, m)
                 ELSE ConfirmResume(p, r, m)

\* A message no listener accepts: of it, the listeners read the origin and
\* the correlation token only.
Ignored(m) ==
    [inst |-> "none", step |-> "message", op |-> "message", kind |-> "ignored",
     value |-> <<>>, error |-> Undefined, cached |-> Undefined,
     origin |-> m.origin, state |-> m.state, type |-> "none", payload |-> Undefined,
     seen |-> <<>>, query |-> NoQuery]

\* A window message event: every helper's listener sees it.
Message(m) ==
    IF \E p \in Helpers : \E r \in pending[p] : Matches(p, r, m)
    THEN \E p \in Helpers : \E r \in pending[p] : Matches(p, r, m) /\ Settle(p, r, m)
    ELSE /\ last' = Ignored(m)
         /\ emitted' = <<>>
         /\ UNCHANGED <<storage, address, chainId, pending, cont, nextToken, authorized>>

\* A helper that rejects the pending request and leaves its message
\* listener registered.
AbandonKeepsListener(p, step, error) ==
    \E r \in pending[p] :
        /\ pending' = pending
        /\ last' = [Did(p, step, r.method, "rejected", <<>>, error)
                       EXCEPT !.state = r.token]
        /\ emitted' = <<>>
        /\ UNCHANGED <<storage, address, chainId, cont, nextToken, authorized>>

\* The popup-liveness poll finding the popup closed, or the handshake's
\* timeout expiring: the pending request (state: its token) is rejected and
\* its listener and timers are removed.
Abandon(p, step, error) ==
    \E r \in pending[p] :
        /\ pending' = [pending EXCEPT ![p] = @ \ {r}]
        /\ last' = [Did(p, step, r.method, "rejected", <<>>, error)
                       EXCEPT !.state = r.token]
        /\ emitted' = <<>>
        /\ UNCHANGED <<storage, address, chainId, cont, nextToken, authorized>>

PopupClosed(p) == Abandon(p, "closed", "UserCancelledError")

\* A helper without the timeout.
TimeoutNever(p) == FALSE

Timeout(p) == Abandon(p, "timeout", "TimeoutError")

Call(p) ==
    \/ Connect(p)
    \/ Disconnect(p)
    \/ EthChainId(p)
    \/ EthAccounts(p)
    \/ EthRequestAccounts(p)
    \/ \E method \in SignMethods : SignRequest(p, method)
    \/ SignConfirm(p)
    \/ PassThrough(p)
    \/ PopupClosed(p)
    \/ Timeout(p)

\* A page on which one provider instance is in use; the storage entry may
\* hold anything an earlier page load or another script left there.
Next ==
    /\ \/ Call("w1")
       \/ \E m \in Messages : Message(m)
    /\ UNCHANGED <<settledBy, disconnectedDuring>>

Spec == Init /\ [][Next]_vars

\* The same page with the timers running: a pending handshake's timeout
\* expires unless the handshake is settled before.
SpecFair == Spec /\ WF_vars(Timeout("w1") /\ UNCHANGED <<settledBy, disconnectedDuring>>)

\* The step settled a handshake: a message was accepted for it, or the popup
\* was found closed, or the timeout expired.
Settles == last'.step \in {"message", "closed", "timeout"} /\ last'.kind # "ignored"

\* The record of which waiter settled each handshake.
Recorded ==
    settledBy' = IF Settles THEN [settledBy EXCEPT ![last'.state] = last'.step]
                            ELSE settledBy

\* The calls that read or replace the session, without the signing requests.
CallTraced(p) ==
    \/ Connect(p)
    \/ Disconnect(p)
    \/ EthChainId(p)
    \/ EthAccounts(p)
    \/ PassThrough(p)
    \/ PopupClosed(p)
    \/ Timeout(p)

NextTraced ==
    /\ \/ CallTraced("w1")
       \/ \E m \in Messages : Message(m)
    /\ Recorded
    /\ UNCHANGED disconnectedDuring

\* A page that uses the functions of auth.ts: authorize() through a popup,
\* and parseRedirectUrl() after a redirect back.
NextAuth ==
    /\ \/ Authorize
       \/ PopupClosed("authorize")
       \/ Timeout("authorize")
       \/ \E m \in Messages : Message(m)
       \/ \E q \in Queries : ParseRedirectUrl(q)
    /\ UNCHANGED <<settledBy, disconnectedDuring>>

SpecAuth == Init /\ [][NextAuth]_vars

\* The calls of a provider instance that read or write the session.
CallShared(p) ==
    \/ Connect(p)
    \/ Disconnect(p)
    \/ EthAccounts(p)
    \/ SignRequest(p, "personal_sign")
    \/ SignConfirm(p)

\* Two instances constructed for Ronin mainnet on a page whose storage entry
\* is absent: whatever the entry holds later, one of the two wrote.
InitShared ==
    /\ Init
    /\ storage = Null
    /\ \A p \in Inst : chainId[p] = 2020

\* A page on which two provider instances are in use: they share the storage
\* entry, and each has its own this.address and its own helper.
NextShared ==
    /\ \/ \E p \in Inst : CallShared(p)
       \/ \E m \in Messages : Message(m)
    /\ UNCHANGED <<settledBy, disconnectedDuring>>

SpecShared == InitShared /\ [][NextShared]_vars

\* The record of the handshakes a disconnect() of their instance ran over.
Overtaken ==
    disconnectedDuring' =
        IF last'.op = "disconnect"
        THEN disconnectedDuring \cup {r.token : r \in pending[last'.inst]}
        ELSE disconnectedDuring

\* connect(), disconnect() and eth_accounts, and what ends a handshake.
CallOverlap(p) ==
    \/ Connect(p)
    \/ Disconnect(p)
    \/ EthAccounts(p)
    \/ PopupClosed(p)

NextOverlap ==
    /\ \/ CallOverlap("w1")
       \/ \E m \in Messages : Message(m)
    /\ Overtaken
    /\ UNCHANGED settledBy

\* The page of Spec, with the handshakes that a disconnect() ran over
\* recorded.
SpecOverlap == Init /\ [][NextOverlap]_vars

\* The page of Spec, with the settlement of every handshake recorded.
SpecTraced == Init /\ [][NextTraced]_vars

(* ------------------------------ claims --------------------------------- *)

\* The address a session holds for instance p: the in-memory one, else the
\* stored one if it validates.
SessionAddress(p) ==
    IF address[p] # Undefined THEN address[p] ELSE validateIdAddress(storage)

\* Lists an accounts answer or announcement may be, given the addresses S.
AccountLists(S) == {<<>>} \cup {<<a>> : a \in S}

HandshakeMethods == ConnectMethods \cup SignMethods

\* The step settles (or abandons) an authorization request of instance p.
EndsAuthRequest(p) == \E r \in pending[p] \ pending'[p] : r.phase = "auth"

\* The step is a connect() of instance p failing: at its call, or when its
\* handshake is settled or abandoned.
ConnectFails(p) ==
    /\ last'.inst = p
    /\ last'.kind = "rejected"
    /\ \/ last'.step = "call" /\ last'.op \in HandshakeMethods
       \/ EndsAuthRequest(p)

\* The step leaves the session as it was and emits nothing.
SessionKept == address' = address /\ storage' = storage /\ emitted' = <<>>

\* C1: eth_requestAccounts never answers from the cache. Whatever the cache
\* holds, its call launches an authorization handshake with a fresh token (or
\* is rejected: popup blocked, another handshake pending) and resolves
\* nothing; it resolves only when a success message of the ID provider is
\* accepted for its request, and then with [A], A the validated address of
\* the payload: accountsChanged([A]) is emitted first, and A is the in-memory
\* and the stored address.
C1_RequestAccountsFreshHandshake ==
    [][\A p \in Inst :
        (last'.inst = p /\ last'.op = "eth_requestAccounts") =>
            /\ last'.step = "call" =>
                  /\ last'.kind \in {"authorizing", "rejected"}
                  /\ last'.value = <<>>
                  /\ SessionKept
                  /\ last'.kind = "rejected" =>
                        /\ pending' = pending
                        /\ last'.error \in {"ConcurrentRequestError", "UserCancelledError"}
                        /\ last'.error = "ConcurrentRequestError" <=> pending[p] # {}
                  /\ last'.kind = "authorizing" =>
                        /\ nextToken' = nextToken + 1
                        /\ pending'[p] = pending[p] \cup
                              {[token |-> nextToken, phase |-> "auth",
                                method |-> "eth_requestAccounts", expect |-> Undefined]}
            /\ last'.kind = "resolved" =>
                  /\ last'.step = "message"
                  /\ last'.origin = IdOrigin
                  /\ last'.type = "success"
                  /\ \E r \in pending[p] \ pending'[p] :
                        r.token = last'.state /\ r.phase = "auth"
                  /\ LET a == validateIdAddress(last'.payload) IN
                        /\ a \in Canon
                        /\ last'.value = <<a>>
                        /\ Len(emitted') >= 1
                        /\ emitted'[1] = AccountsChanged(<<a>>)
                        /\ address'[p] = a
                        /\ storage' = a
                        /\ SessionAddress(p)' = a
    ]_vars

\* C1 witness: eth_requestAccounts resolved with an address other than the
\* one the cache held, which it replaced.
C1_Witness ==
    /\ last.op = "eth_requestAccounts"
    /\ last.kind = "resolved"
    /\ last.cached \in Canon
    /\ last.value # <<last.cached>>
    /\ <<address[last.inst]>> = last.value
    /\ <<storage>> = last.value

\* C2: no helper ever has two handshakes pending; a call that needs a
\* handshake while one is pending is rejected at once and launches nothing.
C2_OneHandshakePerInstance ==
    /\ [](\A p \in Inst : Cardinality(pending[p]) <= 1)
    /\ [][\A p \in Inst :
            (/\ last'.inst = p
             /\ last'.step \in {"call", "resume"}
             /\ last'.op \in HandshakeMethods
             /\ last'.kind # "ready"
             /\ pending[p] # {}) =>
                /\ last'.kind = "rejected"
                /\ last'.error = "ConcurrentRequestError"
                /\ pending' = pending
                /\ nextToken' = nextToken
       ]_vars

\* C2 witness: a connect() was rejected while a confirmation was pending.
C2_Witness ==
    /\ last.op = "connect"
    /\ last.error = "ConcurrentRequestError"
    /\ \E r \in pending["w1"] : r.phase = "confirm"

\* C3: a failing connect() (rejected at its call, handshake answered with
\* failure, abandoned, or answered with a success payload whose address is
\* missing or invalid) rejects, leaves the in-memory and the stored address
\* as they were and emits nothing.
C3_FailedConnectChangesNothing ==
    [][\A p \in Inst :
        /\ (/\ last'.inst = p
            /\ last'.step = "message"
            /\ EndsAuthRequest(p)
            /\ \/ last'.type = "failure"
               \/ validateIdAddress(last'.payload) = Undefined) =>
                last'.kind = "rejected"
        /\ (last'.inst = p /\ last'.step \in {"closed", "timeout"}) =>
                last'.kind = "rejected"
        /\ ConnectFails(p) =>
                /\ SessionKept
                /\ SessionAddress(p)' = SessionAddress(p)
                /\ last'.value = <<>>
                /\ last'.error # Undefined
    ]_vars

\* C3 witness: with an empty session cache, connect() was answered with a
\* success payload carrying an invalid address; the cache is still empty.
C3_Witness ==
    /\ last.op = "connect"
    /\ last.kind = "rejected"
    /\ last.type = "success"
    /\ last.payload = "garbage"
    /\ last.cached = Undefined
    /\ SessionAddress("w1") = Undefined
    /\ storage = Null

\* C4: the in-memory address is absent or an address validated on a success
\* response of a completed handshake, and so is every value the provider
\* writes to storage; eth_accounts answers and accountsChanged announces
\* validated addresses only.
C4_OnlyValidatedAddresses ==
    /\ [](/\ authorized \subseteq Canon
          /\ \A p \in Inst : address[p] \in authorized \cup {Undefined}
          /\ last.op = "eth_accounts" => last.value \in AccountLists(Canon)
          /\ \A i \in DOMAIN emitted :
                emitted[i].accounts \in AccountLists(authorized))
    /\ [][storage' # storage => storage' \in authorized' \cup {Null}]_vars

\* C4 witness: a connected instance was offered a malformed address by a
\* later handshake and still holds the validated one.
C4_Witness ==
    /\ address["w1"] \in Canon
    /\ storage = address["w1"]
    /\ last.step = "message"
    /\ last.type = "success"
    /\ last.payload = "garbage"
    /\ last.kind = "rejected"

\* C5: a message from another origin than the ID provider's settles nothing,
\* whatever it carries: pending requests, session and continuations stay as
\* they were and nothing is emitted.
C5_ForeignOriginIgnored ==
    [][(last'.step = "message" /\ last'.origin # IdOrigin) =>
            /\ last'.kind = "ignored"
            /\ pending' = pending
            /\ cont' = cont
            /\ SessionKept
    ]_vars

\* C5 witness: a message from another origin carrying the pending request's
\* token was delivered, and the request is still pending.
C5_Witness ==
    /\ last.step = "message"
    /\ last.origin = AppOrigin
    /\ \E r \in pending["w1"] : r.token = last.state

\* C6: a message from the ID provider's origin whose token is not that of a
\* pending request is ignored and changes nothing; a message settles a
\* request only if it comes from the ID provider's origin and carries that
\* request's token, and it settles that request alone.
C6_ForeignTokenIgnored ==
    [][last'.step = "message" =>
        /\ (/\ last'.origin = IdOrigin
            /\ \A p \in Inst : \A r \in pending[p] : r.token # last'.state) =>
                /\ last'.kind = "ignored"
                /\ pending' = pending
                /\ cont' = cont
                /\ SessionKept
        /\ (last'.kind # "ignored" \/ pending' # pending) =>
                /\ last'.origin = IdOrigin
                /\ last'.inst \in Inst
                /\ \E r \in pending[last'.inst] :
                      /\ r.token = last'.state
                      /\ pending' = [pending EXCEPT ![last'.inst] = @ \ {r}]
    ]_vars

\* C6 witness: while a request was pending, a message from the ID provider's
\* origin with another token was delivered; the request is still pending.
C6_Witness ==
    /\ last.step = "message"
    /\ last.kind = "ignored"
    /\ last.origin = IdOrigin
    /\ pending["w1"] # {}
    /\ \A r \in pending["w1"] : r.token # last.state

\* C7: disconnect() of an instance whose session holds an address (in memory
\* or only in storage) removes the stored and the in-memory address and emits
\* accountsChanged([]) then disconnect, each once; eth_accounts is then empty.
C7_DisconnectConnected ==
    [][\A p \in Inst :
        (last'.inst = p /\ last'.op = "disconnect" /\ SessionAddress(p) # Undefined) =>
            /\ storage' = Null
            /\ address'[p] = Undefined
            /\ SessionAddress(p)' = Undefined
            /\ emitted' = <<AccountsChanged(<<>>), DisconnectEvent>>
    ]_vars

\* C8 as stated: disconnect() of an instance whose session holds no address
\* emits nothing and leaves storage and the in-memory address as they were.
C8_DisconnectDisconnectedUntouched ==
    [][\A p \in Inst :
        (last'.inst = p /\ last'.op = "disconnect" /\ SessionAddress(p) = Undefined) =>
            /\ emitted' = <<>>
            /\ address' = address
            /\ storage' = storage
    ]_vars

\* C8, amended: disconnect() of an instance whose session holds no address
\* emits nothing, leaves the in-memory address absent and the session empty,
\* and leaves no value in storage: an absent entry stays absent, an invalid
\* leftover entry is removed. A disconnect() right after a disconnect() of
\* the same instance emits nothing.
C8_DisconnectDisconnected ==
    [][\A p \in Inst :
        (last'.inst = p /\ last'.op = "disconnect") =>
            /\ SessionAddress(p) = Undefined =>
                  /\ emitted' = <<>>
                  /\ address' = address
                  /\ storage' = Null
                  /\ storage = Null => storage' = storage
                  /\ SessionAddress(p)' = Undefined
                  /\ pending' = pending /\ cont' = cont
            /\ (last.inst = p /\ last.op = "disconnect") => emitted' = <<>>
    ]_vars

\* C8 witness: a disconnect() found no address in the session of an instance
\* that had been connected earlier, and emitted nothing.
C8_Witness ==
    /\ last.op = "disconnect"
    /\ last.cached = Undefined
    /\ emitted = <<>>
    /\ storage = Null
    /\ authorized # {}

\* C9: eth_accounts launches no handshake, changes neither the in-memory
\* address nor storage, emits nothing, and answers the one-element list of
\* the session's address (the in-memory one, else the validated stored one)
\* or the empty list, also while a handshake is pending.
C9_EthAccountsReadsCache ==
    [][\A p \in Inst :
        (last'.inst = p /\ last'.op = "eth_accounts") =>
            /\ pending' = pending
            /\ nextToken' = nextToken
            /\ cont' = cont
            /\ SessionKept
            /\ last'.kind = "resolved"
            /\ last'.value =
                  IF address[p] # Undefined THEN <<address[p]>>
                  ELSE IF storage \in RawValid THEN <<validateIdAddress(storage)>>
                  ELSE <<>>
    ]_vars

\* C9 witness: while a handshake was pending, eth_accounts answered the
\* checksummed form of an address held in storage only.
C9_Witness ==
    /\ last.op = "eth_accounts"
    /\ last.value = <<"0xA1">>
    /\ address["w1"] = Undefined
    /\ storage = "0xa1"
    /\ pending["w1"] # {}

\* C10: a signing request whose session holds an address launches no
\* authorization handshake and takes that address as its expected address; one
\* whose session holds none runs connect() once, and takes the address that
\* connect authorized once it has succeeded; the confirmation is launched
\* only by a request that has its expected address, with that address; a
\* failed implicit connect rejects the request and launches no confirmation.
C10_SignUsesCacheOrConnects ==
    [][\A p \in Inst :
        (last'.inst = p /\ last'.op \in SignMethods) =>
            /\ (last'.step = "call" /\ SessionAddress(p) # Undefined) =>
                  /\ last'.kind = "ready"
                  /\ pending' = pending
                  /\ nextToken' = nextToken
                  /\ cont'[p] = [method |-> last'.op, expect |-> SessionAddress(p)]
            /\ (last'.step = "call" /\ SessionAddress(p) = Undefined) =>
                  /\ cont' = cont
                  /\ last'.kind \in {"authorizing", "rejected"}
                  /\ last'.kind = "authorizing" =>
                        /\ nextToken' = nextToken + 1
                        /\ pending'[p] = pending[p] \cup
                              {[token |-> nextToken, phase |-> "auth",
                                method |-> last'.op, expect |-> Undefined]}
                  /\ last'.kind = "rejected" => pending' = pending
            /\ last'.kind = "ready" /\ last'.step = "message" =>
                  /\ last'.type = "success"
                  /\ EndsAuthRequest(p)
                  /\ validateIdAddress(last'.payload) \in Canon
                  /\ address'[p] = validateIdAddress(last'.payload)
                  /\ cont'[p] = [method |-> last'.op, expect |-> address'[p]]
                  /\ \A r \in pending'[p] : r.phase # "confirm"
            /\ (\E r \in pending'[p] \ pending[p] : r.phase = "confirm") =>
                  /\ last'.step = "resume"
                  /\ cont[p] # NoCont
                  /\ cont'[p] = NoCont
                  /\ pending'[p] = pending[p] \cup
                        {[token |-> nextToken, phase |-> "confirm",
                          method |-> cont[p].method, expect |-> cont[p].expect]}
                  /\ cont[p].expect \in Canon
            /\ last'.step = "resume" =>
                  \A r \in pending'[p] \ pending[p] : r.phase = "confirm"
            /\ ConnectFails(p) =>
                  /\ cont'[p] = NoCont
                  /\ pending'[p] \subseteq pending[p]
    ]_vars

\* C10 witness: a signing request that found no address in the session has
\* launched its confirmation, expecting the address its connect authorized.
C10_Witness ==
    /\ last.op \in SignMethods
    /\ last.step = "resume"
    /\ last.kind = "confirming"
    /\ \E r \in pending["w1"] :
          r.phase = "confirm" /\ r.expect = "0xB2" /\ <<r.expect>> = last.value
    /\ authorized = {"0xB2"}
    /\ address["w1"] = "0xB2"

\* The step is a connect() of instance p succeeding: a success message with
\* a valid address is accepted for an authorization request of p.
ConnectSucceeds(p) ==
    /\ last'.inst = p
    /\ last'.step = "message"
    /\ last'.type = "success"
    /\ EndsAuthRequest(p)
    /\ validateIdAddress(last'.payload) \in Canon

\* C11: a successful connect() writes the validated address A to storage and
\* to this.address before it emits, then emits accountsChanged([A]) and
\* connect({chainId}), in that order and nothing else; the session then holds
\* A, and a listener of these events already reads [A] from eth_accounts.
C11_ConnectWritesThenEmits ==
    [][\A p \in Inst :
        ConnectSucceeds(p) =>
            LET a == validateIdAddress(last'.payload) IN
            /\ storage' = a
            /\ address'[p] = a
            /\ SessionAddress(p)' = a
            /\ emitted' = <<AccountsChanged(<<a>>), ConnectEvent(chainId[p])>>
            /\ chainId' = chainId
            /\ last'.seen = <<a>>
            /\ last'.kind \in {"resolved", "ready"}
            /\ last'.value = <<a>>
    ]_vars

\* C11 witness: a connect() succeeded with 0xB2 on an instance whose session
\* held 0xA1; the listeners of its events read [0xB2].
C11_Witness ==
    /\ last.op = "connect"
    /\ last.kind = "resolved"
    /\ last.cached = "0xA1"
    /\ last.seen = <<"0xB2">>
    /\ emitted = <<AccountsChanged(<<"0xB2">>), ConnectEvent(2021)>>
    /\ storage = "0xB2"
    /\ address["w1"] = "0xB2"

\* Instance p's helper holds the handshake with token t pending.
Waiting(p, t) == \E r \in pending[p] : r.token = t

\* C12: every started handshake is eventually settled: a request pending in
\* a helper does not stay pending forever, even when no matching message
\* arrives and the popup is never found closed.
C12_HandshakeSettles ==
    \A p \in Inst : \A t \in Tokens : Waiting(p, t) ~> ~Waiting(p, t)

\* C12 witness: a handshake that no message and no popup closure settled was
\* rejected by its timeout.
C12_Witness ==
    /\ last.step = "timeout"
    /\ last.kind = "rejected"
    /\ last.error = "TimeoutError"
    /\ last.state = 1
    /\ ~Waiting("w1", 1)

\* C13: a pending handshake is settled exactly once, by whichever of the
\* matching message, the popup-closed poll and the timeout comes first: the
\* settling step removes the request, which cancels the other waiters, and the
\* recorded outcome of a handshake is never replaced; a message that arrives
\* for a handshake already settled is ignored and changes neither the session
\* nor any pending request, and with nothing pending the poll and the timeout
\* have nothing to reject.
C13_SettledOnce ==
    /\ [][/\ \A t \in Tokens :
                settledBy[t] # "none" => settledBy'[t] = settledBy[t]
          /\ Settles =>
                \E p \in Inst : \E r \in pending[p] :
                    /\ last'.inst = p
                    /\ r.token = last'.state
                    /\ settledBy[r.token] = "none"
                    /\ pending' = [pending EXCEPT ![p] = @ \ {r}]
          /\ (last'.step = "message" /\ settledBy[last'.state] # "none") =>
                /\ last'.kind = "ignored"
                /\ SessionKept
                /\ UNCHANGED <<pending, cont, authorized>>
       ]_vars
    /\ [](\A p \in Inst :
            pending[p] = {} => ~ENABLED (PopupClosed(p) \/ Timeout(p)))

\* C13 witness: the popup was found closed, which rejected the handshake, and
\* the identity origin's message for that handshake arrived afterwards.
C13_Witness ==
    /\ last.step = "message"
    /\ last.kind = "ignored"
    /\ last.origin = IdOrigin
    /\ settledBy[last.state] = "closed"

\* The address in the result of authorize() or parseRedirectUrl(): the last
\* component of the returned value.
ReturnedAddress == last.value[Len(last.value)]

\* C14: when authorize() or parseRedirectUrl() returns normally, the address
\* of its result is a valid, validated address; with a missing or invalid
\* address it fails.
C14_AuthResultHasValidAddress ==
    (last.op \in {"authorize", "parseRedirectUrl"} /\ last.kind = "resolved") =>
        ReturnedAddress \in Canon

\* C15: parseRedirectUrl() returns a result exactly when method is "auth"
\* and type is "success"; with any other method it throws "invalid method",
\* whatever the type, and with method "auth" and another type it throws
\* "authorization failed"; a call that throws returns nothing.
C15_ParseRedirectUrlChecks ==
    last.op = "parseRedirectUrl" =>
        LET q == last.query IN
        /\ last.kind \in {"resolved", "rejected"}
        /\ last.kind = "resolved" <=> (q.method = "auth" /\ q.type = "success")
        /\ last.kind = "resolved" =>
                /\ last.error = Undefined
                /\ last.value[1] = q.state
                /\ last.value[2] = q.data
        /\ q.method # "auth" =>
                /\ last.error = "parseRedirectUrl: invalid method"
                /\ last.value = <<>>
        /\ (q.method = "auth" /\ q.type # "success") =>
                /\ last.error = "parseRedirectUrl: authorization failed"
                /\ last.value = <<>>

\* C15 witness: parseRedirectUrl() ran on a query string with a method other
\* than "auth" and a type other than "success", and threw for the method.
C15_Witness ==
    /\ last.op = "parseRedirectUrl"
    /\ last.query.method = "sign"
    /\ last.query.type = "failure"
    /\ last.kind = "rejected"
    /\ last.error = "parseRedirectUrl: invalid method"

\* C16: while this.address of an instance holds A, which it does from a
\* successful connect() with A on, every eth_accounts of that instance
\* resolves with exactly [A], and only a disconnect() or a successful
\* connect() of that instance replaces A: failed connects, eth_chainId calls
\* and pass-through requests leave it.
C16_AccountsStableWhileConnected ==
    [][\A p \in Inst :
        address[p] # Undefined =>
            /\ (last'.inst = p /\ last'.op = "eth_accounts") =>
                    /\ last'.kind = "resolved"
                    /\ last'.value = <<address[p]>>
            /\ address'[p] # address[p] =>
                    /\ last'.inst = p
                    /\ last'.op = "disconnect" \/ ConnectSucceeds(p)
            /\ (\/ ConnectFails(p)
                \/ last'.op \in {"eth_chainId", "eth_accounts", "eth_blockNumber"}) =>
                    address'[p] = address[p]
    ]_vars

\* C16 witness: the first handshake connected 0xA1, a second connect() was
\* abandoned (popup closed or timed out), and an eth_accounts after it
\* resolved with [0xA1].
C16_Witness ==
    /\ last.op = "eth_accounts"
    /\ last.value = <<"0xA1">>
    /\ address["w1"] = "0xA1"
    /\ authorized = {"0xA1"}
    /\ nextToken = 3
    /\ settledBy[1] = "message"
    /\ settledBy[2] \in {"closed", "timeout"}

\* C17: with this.address absent and a storage entry that does not validate
\* (absent, empty or corrupted), reading the session does not fail and finds
\* no session: eth_accounts resolves with [], and a signing request runs
\* connect() (it launches an authorization handshake, or is rejected by the
\* launch) and uses no stored value.
C17_InvalidStorageIsNoSession ==
    [][\A p \in Inst :
        (/\ address[p] = Undefined
         /\ storage \notin RawValid
         /\ last'.inst = p
         /\ last'.step = "call") =>
            /\ last'.cached = Undefined
            /\ last'.op = "eth_accounts" =>
                    /\ last'.kind = "resolved"
                    /\ last'.value = <<>>
                    /\ last'.error = Undefined
            /\ last'.op \in SignMethods =>
                    /\ cont'[p] = NoCont
                    /\ last'.value = <<>>
                    /\ \/ /\ last'.kind = "authorizing"
                          /\ \E r \in pending'[p] \ pending[p] :
                                /\ r.phase = "auth"
                                /\ r.method = last'.op
                                /\ r.expect = Undefined
                       \/ /\ last'.kind = "rejected"
                          /\ last'.error \in {"ConcurrentRequestError", "UserCancelledError"}
                          /\ pending' = pending
    ]_vars

\* C17 witness: personal_sign on an instance without this.address, the
\* storage entry corrupted, has launched an authorization handshake.
C17_Witness ==
    /\ last.op = "personal_sign"
    /\ last.step = "call"
    /\ last.kind = "authorizing"
    /\ last.cached = Undefined
    /\ storage = "garbage"
    /\ address["w1"] = Undefined

\* The hexadecimal name of each supported chain id.
ChainHex(c) == IF c = 2020 THEN "0x7e4" ELSE "0x7e5"

\* C18: eth_chainId can be called in every reachable state; it resolves with
\* the chain id the instance was constructed with, in hexadecimal, and
\* changes nothing: no handshake is launched or settled, no event is emitted,
\* and this.address, the storage entry and the chain id are as before.
C18_EthChainIdPure ==
    /\ [](\A p \in Inst : ENABLED (EthChainId(p) /\ UNCHANGED <<settledBy, disconnectedDuring>>))
    /\ [][\A p \in Inst :
            (last'.inst = p /\ last'.op = "eth_chainId") =>
                /\ last'.kind = "resolved"
                /\ last'.value = <<ChainHex(chainId[p])>>
                /\ last'.error = Undefined
                /\ emitted' = <<>>
                /\ UNCHANGED <<storage, address, chainId, pending, cont, nextToken,
                               authorized>>
       ]_vars

\* C18 witness: eth_chainId answered 0x7e5 on an instance constructed for
\* chain 2021, connected, with a handshake pending.
C18_Witness ==
    /\ last.op = "eth_chainId"
    /\ last.value = <<"0x7e5">>
    /\ chainId["w1"] = 2021
    /\ address["w1"] = "0xA1"
    /\ pending["w1"] # {}

\* C19: on a page where one provider instance is the only writer of the
\* storage entry, whenever this.address is defined the entry holds exactly
\* that address, and after a disconnect() this.address and the entry are
\* both absent.
C19_MemoryMirrorsStorage ==
    /\ \A p \in Inst : address[p] # Undefined => storage = address[p]
    /\ last.op = "disconnect" =>
            /\ storage = Null
            /\ address[last.inst] = Undefined

\* C19 witness: the instance connected 0xA1 and later 0xB2; this.address and
\* the storage entry both hold 0xB2.
C19_Witness ==
    /\ address["w1"] = "0xB2"
    /\ storage = "0xB2"
    /\ authorized = Canon
    /\ last.op = "connect"
    /\ last.cached = "0xA1"

\* C20: of two instances sharing the storage entry, one that has this.address
\* answers eth_accounts with it and signs with it as expected address,
\* whatever the entry holds after the other instance's connect() or
\* disconnect(); one that has no this.address answers eth_accounts from the
\* entry as the last writer left it; and no call or handshake of one instance
\* changes this.address of the other.
C20_OwnAddressOverSharedStorage ==
    [][\A p \in Inst :
        /\ (last'.inst = p /\ last'.step = "call" /\ address[p] # Undefined) =>
                /\ last'.cached = address[p]
                /\ last'.op = "eth_accounts" => last'.value = <<address[p]>>
                /\ last'.op \in SignMethods =>
                        /\ last'.kind = "ready"
                        /\ cont'[p].expect = address[p]
                        /\ pending' = pending
        /\ (last'.inst = p /\ last'.op = "eth_accounts" /\ address[p] = Undefined) =>
                last'.value = IF storage \in RawValid
                              THEN <<validateIdAddress(storage)>>
                              ELSE <<>>
        /\ last'.inst # p => address'[p] = address[p]
    ]_vars

\* C20 witness: instance w1 holds 0xA1, instance w2 connected 0xB2 after it
\* and overwrote the entry, and eth_accounts of w1 still resolved with [0xA1].
C20_Witness ==
    /\ last.inst = "w1"
    /\ last.op = "eth_accounts"
    /\ last.value = <<"0xA1">>
    /\ address = [w1 |-> "0xA1", w2 |-> "0xB2"]
    /\ storage = "0xB2"

\* C21: a disconnect() leaves the handshakes of its instance pending: it
\* cancels none and launches none. The identity origin's message for a
\* handshake that a disconnect() ran over is still accepted, and when it
\* carries a valid address A the connect() succeeds as any other: A is in
\* this.address and in storage, accountsChanged([A]) and connect are emitted
\* (after the disconnect's own events, which belonged to its step), and the
\* session holds A.
C21_DisconnectKeepsHandshake ==
    [][\A p \in Inst :
        /\ (last'.inst = p /\ last'.op = "disconnect") =>
                UNCHANGED <<pending, cont, nextToken, authorized>>
        /\ (/\ last'.step = "message"
            /\ last'.origin = IdOrigin
            /\ last'.state \in disconnectedDuring
            /\ Waiting(p, last'.state)) =>
                /\ last'.inst = p
                /\ last'.kind # "ignored"
                /\ \A r \in pending'[p] : r.token # last'.state
        /\ (ConnectSucceeds(p) /\ last'.state \in disconnectedDuring) =>
                LET a == validateIdAddress(last'.payload) IN
                /\ last'.kind = "resolved"
                /\ last'.value = <<a>>
                /\ address'[p] = a
                /\ storage' = a
                /\ SessionAddress(p)' = a
                /\ emitted' = <<AccountsChanged(<<a>>), ConnectEvent(chainId[p])>>
    ]_vars

\* C21 witness: disconnect() ran while a connect() was pending, the popup
\* then answered with 0xA1, and the instance is connected with 0xA1.
C21_Witness ==
    /\ last.op = "connect"
    /\ last.step = "message"
    /\ last.kind = "resolved"
    /\ last.state \in disconnectedDuring
    /\ last.cached = Undefined
    /\ address["w1"] = "0xA1"
    /\ storage = "0xA1"
    /\ emitted = <<AccountsChanged(<<"0xA1">>), ConnectEvent(chainId["w1"])>>

=============================================================================
